---- MODULE Spec2Model ----
(***************************************************************************)
(* Model of training/convert_labels_to_records.py: discovery of the        *)
(* annotation files, the train/eval split, the label vocabulary, the       *)
(* round-robin partition into shard tasks, the thread pool that writes one *)
(* record file per task, and the label map and summary written at the end. *)
(***************************************************************************)
EXTENDS Integers, Sequences, FiniteSets, Bags, TLC

VARIABLES
    args,        \* parsed command line: number, split, eval, eval_folder
    processes,   \* size of the ThreadPool (os.cpu_count())
    dirs,        \* the two folders: readable, writable, annotation files
    store,       \* what bbox_writer.read_rects returns for each annotation file
    pc,          \* position of the main thread
    shuffled,    \* the shuffled file list of args.folder, before any split
    train_filenames, \* get_record_writing_tasks' train list when it partitions
    eval_filenames,  \* get_record_writing_tasks' eval list when it partitions
    tasks,       \* the task list returned by get_record_writing_tasks
    labels,      \* the label vocabulary returned by get_record_writing_tasks
    chunks,      \* the chunks starmap cut the task list into
    tstate,      \* per task: pending / open / returned / raised
    idx,         \* per task: number of files of its data already written
    examples_count,  \* per task: the worker's local Counter
    negative_count,  \* per task: the worker's local negative counter
    failure,     \* the first exception stored by the map result, or NoFailure
    disk,        \* record files on disk: path -> records written so far
    manifest,    \* label.pbtxt: NotWritten or its items
    results,     \* what starmap returned: NoResults or the list of Results
    summary,     \* what print_results printed: NotPrinted or the totals
    wrote_after  \* history: a record was written after the first failure

vars == <<args, processes, dirs, store, pc, shuffled, train_filenames,
          eval_filenames, tasks, labels, chunks, tstate, idx,
          examples_count, negative_count, failure, disk, manifest, results,
          summary, wrote_after>>

inputs == <<args, processes, dirs, store>>
plan == <<shuffled, train_filenames, eval_filenames, tasks, labels>>

-----------------------------------------------------------------------------
(* Bounds of the model *)

MaxTrain == 3
MaxNumber == 3

-----------------------------------------------------------------------------
(* Values *)

NoFailure == [kind |-> "none"]
NotWritten == [written |-> FALSE]
NotPrinted == [printed |-> FALSE]
NoResults == [returned |-> FALSE]

\* Class names are strings, modelled as sequences of code points, so that
\* Python's string comparison can be computed: "a", "aa", "b".
Names == {<<1>>, <<1, 1>>, <<2>>}

\* The annotation files that may exist: up to MaxTrain in args.folder and up
\* to two in args.eval_folder.
TrainIds == 1..MaxTrain
EvalIds == {MaxTrain + 1, MaxTrain + 2}

Annot(rects, classes) == [rects |-> rects, classes |-> classes]

\* A data set in which read_rects returns as many boxes as class names:
\* no box, "b" and "a", "aa", "b", and so on.
Contents ==
    <<Annot(<<>>, <<>>), Annot(<<"box", "box">>, <<<<2>>, <<1>>>>),
      Annot(<<"box">>, <<<<1, 1>>>>), Annot(<<"box">>, <<<<2>>>>)>>
WellFormedStore ==
    [f \in TrainIds \cup EvalIds |-> Contents[((f - 1) % Len(Contents)) + 1]]

\* Data sets in which read_rects returns lists of different lengths for a file.
MismatchedContents ==
    <<Annot(<<>>, <<<<1>>>>), Annot(<<"box">>, <<>>),
      Annot(<<"box", "box">>, <<<<2>>>>)>>
MismatchedStores ==
    {[WellFormedStore EXCEPT ![f] = MismatchedContents[k]] :
        f \in TrainIds, k \in 1..Len(MismatchedContents)}

Range(s) == {s[i] : i \in 1..Len(s)}

\* All orders of a finite set.
Perms(S) == {s \in [1..Cardinality(S) -> S] : Range(s) = S}

Min(a, b) == IF a < b THEN a ELSE b
Max(a, b) == IF a > b THEN a ELSE b

\* Python int(): truncation toward zero of the quotient n / d (d > 0).
PyInt(n, d) == IF n >= 0 THEN n \div d ELSE -((-n) \div d)

\* Python s[:k] and s[k:] for any integer k.
SliceStop(s, k) ==
    LET kk == IF k < 0 THEN Max(Len(s) + k, 0) ELSE Min(k, Len(s))
    IN  SubSeq(s, 1, kk)
SliceStart(s, k) ==
    LET kk == IF k < 0 THEN Max(Len(s) + k, 0) ELSE Min(k, Len(s))
    IN  SubSeq(s, kk + 1, Len(s))

\* Python str < str: lexicographic by code point, a proper prefix is smaller.
RECURSIVE StrLess(_, _)
StrLess(s, t) ==
    IF s = <<>> THEN t # <<>>
    ELSE IF t = <<>> THEN FALSE
    ELSE IF Head(s) < Head(t) THEN TRUE
    ELSE IF Head(s) > Head(t) THEN FALSE
    ELSE StrLess(Tail(s), Tail(t))

\* sorted(set): repeatedly take the least element.
RECURSIVE sorted(_)
sorted(S) ==
    IF S = {} THEN <<>>
    ELSE LET m == CHOOSE x \in S : \A y \in S \ {x} : StrLess(x, y)
         IN  <<m>> \o sorted(S \ {m})

\* collections.Counter(list)
RECURSIVE Counter(_)
Counter(s) ==
    IF s = <<>> THEN EmptyBag ELSE SetToBag({Head(s)}) (+) Counter(Tail(s))

\* "%02d" % i as its sequence of decimal digits.
RECURSIVE Digits(_)
Digits(i) == IF i < 10 THEN <<i>> ELSE Digits(i \div 10) \o <<i % 10>>
Fmt02d(i) == IF i < 10 THEN <<0, i>> ELSE Digits(i)

-----------------------------------------------------------------------------
(* bbox_writer.read_rects, as the stored content of the annotation file *)

read_rects(filename) == store[filename]

-----------------------------------------------------------------------------
(* get_shuffled_filenames: os.walk skips a folder it cannot list (its      *)
(* onerror is None), keeps the names ending in .txt but not in rects.txt,  *)
(* and random.shuffle leaves them in some order.                           *)

walk(folder) ==
    IF dirs[folder].readable
    THEN {[name |-> f, suffix |-> ".txt"] : f \in dirs[folder].files}
         \cup {[name |-> f, suffix |-> ".png"] : f \in dirs[folder].files}
         \cup {[name |-> 0, suffix |-> "rects.txt"]}
    ELSE {}

get_shuffled_filenames(folder) ==
    Perms({e.name : e \in {x \in walk(folder) : x.suffix = ".txt"}})

-----------------------------------------------------------------------------
(* get_labels_from_filenames *)

RECURSIVE all_classes(_)
all_classes(filenames) ==
    IF filenames = <<>> THEN {}
    ELSE Range(read_rects(Head(filenames)).classes) \cup all_classes(Tail(filenames))

\* Variant: ids in the order the names are first read, without sorting.
RECURSIVE first_seen(_, _)
first_seen(names, seen) ==
    IF names = <<>> THEN seen
    ELSE first_seen(Tail(names),
            IF Head(names) \in Range(seen) THEN seen ELSE Append(seen, Head(names)))
RECURSIVE read_order(_)
read_order(filenames) ==
    IF filenames = <<>> THEN <<>>
    ELSE read_rects(Head(filenames)).classes \o read_order(Tail(filenames))
labels_in_reading_order(filenames) ==
    LET ordered == first_seen(read_order(filenames), <<>>)
    IN  [label \in Range(ordered) |->
            (CHOOSE i \in 1..Len(ordered) : ordered[i] = label) - 1]

get_labels_from_filenames(filenames) ==
    LET ordered == sorted(all_classes(filenames))
    IN  [label \in Range(ordered) |->
            (CHOOSE i \in 1..Len(ordered) : ordered[i] = label) - 1]

-----------------------------------------------------------------------------
(* get_train_eval_split_filenames; split is the fraction num / den *)

\* Variant: the two slices exchanged.
split_exchanged(filenames, split) ==
    LET eval_size == PyInt(Len(filenames) * split.num, split.den)
    IN  [train |-> SliceStop(filenames, eval_size),
         eval |-> SliceStart(filenames, eval_size)]

get_train_eval_split_filenames(filenames, split) ==
    LET eval_size == PyInt(Len(filenames) * split.num, split.den)
    IN  [train |-> SliceStart(filenames, eval_size),
         eval |-> SliceStop(filenames, eval_size)]

-----------------------------------------------------------------------------
(* The partition loops of get_record_writing_tasks *)

\* Variant: the shard count not capped by the number of files.
record_number_uncapped(number, filenames) == Max(number, 1)

record_number(number, filenames) == Min(Max(number, 1), Len(filenames))

RECURSIVE distribute(_, _, _, _)
distribute(filenames, i, n, lists) ==
    IF i >= Len(filenames) THEN lists
    ELSE distribute(filenames, i + 1, n,
            [lists EXCEPT ![(i % n) + 1] = Append(@, filenames[i + 1])])

partition(number, filenames) ==
    LET n == record_number(number, filenames)
    IN  distribute(filenames, 0, n, [k \in 1..n |-> <<>>])

task_id(prefix, i) == <<prefix, Fmt02d(i)>>
\* Variant: the split name left out of the file name.
out_path_unprefixed(prefix, i) == <<"folder", "train", Fmt02d(i), ".record">>
out_path(prefix, i) == <<"folder", prefix, Fmt02d(i), ".record">>

shard_tasks(prefix, lists, lbls) ==
    [k \in 1..Len(lists) |->
        [id |-> task_id(prefix, k - 1), labels |-> lbls, data |-> lists[k],
         out_path |-> out_path(prefix, k - 1)]]

\* The lists of train and eval files for one outcome of the shuffles.
split_filenames(train_shuffled, eval_shuffled) ==
    IF args.eval_folder THEN [train |-> train_shuffled, eval |-> eval_shuffled]
    ELSE IF args.eval THEN get_train_eval_split_filenames(train_shuffled, args.split)
    ELSE [train |-> train_shuffled, eval |-> <<>>]

\* Variant: the vocabulary built from the train files alone.
train_files_only(train_list, eval_list) == train_list
vocabulary_files(train_list, eval_list) == train_list \o eval_list

get_record_writing_tasks(train_shuffled, eval_shuffled) ==
    LET s == split_filenames(train_shuffled, eval_shuffled)
        lbls == get_labels_from_filenames(vocabulary_files(s.train, s.eval))
    IN  [tasks |-> shard_tasks("train", partition(args.number, s.train), lbls)
                   \o shard_tasks("eval", partition(args.number, s.eval), lbls),
         labels |-> lbls, train |-> s.train, eval |-> s.eval]

-----------------------------------------------------------------------------
(* create_tf_example: the image is opened first (image_opens tells whether *)
(* Image.open succeeds), then the boxes are read, the class ids are looked *)
(* up, and the example is built.                                           *)

create_tf_example(lbls, filename, image_opens) ==
    LET r == read_rects(filename)
    IN  IF ~image_opens THEN [ok |-> FALSE, error |-> "IOError"]
        ELSE IF \E i \in 1..Len(r.classes) : r.classes[i] \notin DOMAIN lbls
        THEN [ok |-> FALSE, error |-> "KeyError"]
        ELSE [ok |-> TRUE,
              example |-> [filename |-> filename,
                           bbox |-> [i \in 1..Len(r.rects) |-> "norm"],
                           classes_txt |-> r.classes,
                           class_ids |-> [i \in 1..Len(r.classes) |-> lbls[r.classes[i]]]],
              count |-> Counter(r.classes),
              is_negative |-> (Len(r.rects) = 0)]

\* Variant: negative_count = is_negative
assign_negative(n, is_negative) == IF is_negative THEN 1 ELSE 0

\* negative_count += is_negative
add_negative(n, is_negative) == n + (IF is_negative THEN 1 ELSE 0)

-----------------------------------------------------------------------------
(* write_labels: one item per label, the id one-indexed *)

label_items(lbls) ==
    LET ordered == sorted(DOMAIN lbls)
    IN  [k \in 1..Len(ordered) |-> [id |-> lbls[ordered[k]] + 1, name |-> ordered[k]]]

-----------------------------------------------------------------------------
(* print_results *)

RECURSIVE sum_results(_, _)
sum_results(rs, acc) ==
    IF rs = <<>> THEN acc
    ELSE sum_results(Tail(rs),
            [printed |-> TRUE,
             record_counts |-> acc.record_counts + Head(rs).record_count,
             example_counts |-> acc.example_counts (+) Head(rs).class_count,
             negative_counts |-> acc.negative_counts + Head(rs).negative_count])

print_results(rs) ==
    sum_results(rs, [printed |-> TRUE, record_counts |-> 0,
                     example_counts |-> EmptyBag, negative_counts |-> 0])

-----------------------------------------------------------------------------
(* ThreadPool.starmap: the task list is cut into chunks of                 *)
(* ceil(len / (4 * processes)) tasks, the workers take the chunks in       *)
(* order, an exception ends its chunk, the first one is stored, and the    *)
(* call returns or raises once every chunk has ended.                      *)

chunksize(n, procs) ==
    IF n % (procs * 4) = 0 THEN n \div (procs * 4) ELSE n \div (procs * 4) + 1

get_chunks(n, procs) ==
    IF n = 0 THEN <<>>
    ELSE LET size == chunksize(n, procs)
             count == (n + size - 1) \div size
         IN  [c \in 1..count |-> {t \in 1..n : (t - 1) \div size = c - 1}]

Tasks == 1..Len(tasks)
chunk_of(t) == CHOOSE c \in 1..Len(chunks) : t \in chunks[c]
started(c) == \E t \in chunks[c] : tstate[t] # "pending"
ended(c) == (\E t \in chunks[c] : tstate[t] = "raised")
            \/ (\A t \in chunks[c] : tstate[t] = "returned")
running(c) == started(c) /\ ~ended(c)

\* The worker threads are all busy when as many chunks run as there are threads.
idle_worker == Cardinality({c \in 1..Len(chunks) : running(c)}) < processes

\* Variant: the stored exception is dropped.
starmap_swallows(stored) == FALSE

\* starmap raises the stored exception instead of returning the results.
starmap_raises(stored) == stored # NoFailure

store_failure(stored, kind, t) ==
    IF stored = NoFailure THEN [kind |-> kind, task |-> tasks[t].id] ELSE stored

-----------------------------------------------------------------------------
(* Initial states: the command line, the machine and the two folders *)

Splits == {[num |-> 0, den |-> 1], [num |-> 3, den |-> 20], [num |-> 1, den |-> 2],
           [num |-> 3, den |-> 4], [num |-> 1, den |-> 1],
           [num |-> -1, den |-> 2], [num |-> 3, den |-> 2]}
DefaultSplit == [num |-> 3, den |-> 20]

Folder(readable, writable, files) ==
    [readable |-> readable, writable |-> writable, files |-> files]

InitInputs ==
    /\ args \in [number : 0..MaxNumber, split : Splits,
                 eval : BOOLEAN, eval_folder : BOOLEAN]
    /\ ~(args.eval /\ args.eval_folder)
    /\ ~args.eval => args.split = DefaultSplit
    /\ processes \in {1, 2}
    /\ \E rt, wt, re \in BOOLEAN :
       \E ft \in SUBSET TrainIds, fe \in SUBSET EvalIds :
         /\ ~args.eval_folder => re /\ fe = {}
         /\ ~rt => ft = TrainIds
         /\ ~re => fe = EvalIds
         /\ dirs = [folder |-> Folder(rt, wt, ft),
                    eval_folder |-> Folder(re, FALSE, fe)]

InitRun ==
    /\ pc = "main"
    /\ shuffled = <<>>
    /\ train_filenames = <<>>
    /\ eval_filenames = <<>>
    /\ tasks = <<>>
    /\ labels = <<>>
    /\ chunks = <<>>
    /\ tstate = <<>>
    /\ idx = <<>>
    /\ examples_count = <<>>
    /\ negative_count = <<>>
    /\ failure = NoFailure
    /\ disk = <<>>
    /\ manifest = NotWritten
    /\ results = NoResults
    /\ summary = NotPrinted
    /\ wrote_after = FALSE

Init == InitInputs /\ store = WellFormedStore /\ InitRun

-----------------------------------------------------------------------------
(* The main thread and the workers *)

\* tasks, labels = get_record_writing_tasks()
GetRecordWritingTasks ==
    /\ pc = "main"
    /\ \E tr \in get_shuffled_filenames("folder") :
         \E ev \in (IF args.eval_folder THEN get_shuffled_filenames("eval_folder")
                    ELSE {<<>>}) :
            LET r == get_record_writing_tasks(tr, ev)
            IN  /\ tasks' = r.tasks
                /\ labels' = r.labels
                /\ shuffled' = tr
                /\ train_filenames' = r.train
                /\ eval_filenames' = r.eval
    /\ pc' = "starmap"
    /\ UNCHANGED <<inputs, chunks, tstate, idx, examples_count, negative_count,
                   failure, disk, manifest, results, summary, wrote_after>>

\* pool.starmap(write_record_from_list, tasks): the tasks are queued
Starmap ==
    /\ pc = "starmap"
    /\ chunks' = get_chunks(Len(tasks), processes)
    /\ tstate' = [t \in Tasks |-> "pending"]
    /\ idx' = [t \in Tasks |-> 0]
    /\ examples_count' = [t \in Tasks |-> EmptyBag]
    /\ negative_count' = [t \in Tasks |-> 0]
    /\ pc' = "join"
    /\ UNCHANGED <<inputs, plan, failure, disk, manifest, results,
                   summary, wrote_after>>

\* The loop over data goes on, or is over: the writer is closed and the Result
\* returned.
after_record(t, written) == IF written < Len(tasks[t].data) THEN "open" ELSE "returned"

\* A worker enters write_record_from_list for task t and opens its writer.
OpenWriter(t) ==
    /\ pc = "join"
    /\ tstate[t] = "pending"
    /\ LET c == chunk_of(t)
       IN  /\ \A u \in chunks[c] : u < t => tstate[u] = "returned"
           /\ ~started(c) => idle_worker /\ \A b \in 1..(c - 1) : started(b)
    /\ IF dirs["folder"].writable
       THEN /\ tstate' = [tstate EXCEPT ![t] = after_record(t, 0)]
            /\ disk' = (tasks[t].out_path :> <<>>) @@ disk
            /\ UNCHANGED failure
       ELSE /\ tstate' = [tstate EXCEPT ![t] = "raised"]
            /\ failure' = store_failure(failure, "OSError", t)
            /\ UNCHANGED disk
    /\ UNCHANGED <<inputs, pc, plan, chunks, idx, examples_count,
                   negative_count, manifest, results, summary, wrote_after>>

\* One iteration of the loop over data: encode the file and write the record.
WriteRecord(t) ==
    /\ pc = "join"
    /\ tstate[t] = "open"
    /\ idx[t] < Len(tasks[t].data)
    /\ \E image_opens \in BOOLEAN :
       LET r == create_tf_example(tasks[t].labels, tasks[t].data[idx[t] + 1],
                                  image_opens)
       IN  IF r.ok
           THEN /\ disk' = [disk EXCEPT ![tasks[t].out_path] = Append(@, r.example)]
                /\ examples_count' = [examples_count EXCEPT ![t] = @ (+) r.count]
                /\ negative_count' =
                       [negative_count EXCEPT ![t] = add_negative(@, r.is_negative)]
                /\ idx' = [idx EXCEPT ![t] = @ + 1]
                /\ wrote_after' = (wrote_after \/ failure # NoFailure)
                /\ tstate' = [tstate EXCEPT ![t] = after_record(t, idx[t] + 1)]
                /\ UNCHANGED failure
           ELSE /\ tstate' = [tstate EXCEPT ![t] = "raised"]
                /\ failure' = store_failure(failure, r.error, t)
                /\ UNCHANGED <<disk, examples_count, negative_count, idx, wrote_after>>
    /\ UNCHANGED <<inputs, pc, plan, chunks, manifest, results, summary>>

Result(t) ==
    [id |-> tasks[t].id, record_count |-> Len(tasks[t].data),
     class_count |-> examples_count[t], negative_count |-> negative_count[t]]

\* Every chunk has ended and none raised: starmap returns the results in task order.
StarmapReturn ==
    /\ pc = "join"
    /\ \A c \in 1..Len(chunks) : ended(c)
    /\ ~starmap_raises(failure)
    /\ results' = [returned |-> TRUE, list |-> [t \in Tasks |-> Result(t)]]
    /\ pc' = "write_labels"
    /\ UNCHANGED <<inputs, plan, chunks, tstate, idx, examples_count,
                   negative_count, failure, disk, manifest, summary, wrote_after>>

\* Variant: the exception reaches the caller as soon as it is stored.
StarmapRaiseEarly ==
    /\ pc = "join"
    /\ starmap_raises(failure)
    /\ pc' = "crashed"
    /\ UNCHANGED <<inputs, plan, chunks, tstate, idx, examples_count,
                   negative_count, failure, disk, manifest, results, summary,
                   wrote_after>>

\* Every chunk has ended and one raised: starmap raises, the script dies.
StarmapRaise ==
    /\ pc = "join"
    /\ \A c \in 1..Len(chunks) : ended(c)
    /\ starmap_raises(failure)
    /\ pc' = "crashed"
    /\ UNCHANGED <<inputs, plan, chunks, tstate, idx, examples_count,
                   negative_count, failure, disk, manifest, results, summary,
                   wrote_after>>

\* write_labels(args.folder, labels)
WriteLabels ==
    /\ pc = "write_labels"
    /\ IF dirs["folder"].writable
       THEN /\ manifest' = [written |-> TRUE, items |-> label_items(labels)]
            /\ pc' = "print_results"
            /\ UNCHANGED failure
       ELSE /\ pc' = "crashed"
            /\ failure' = [kind |-> "OSError", task |-> <<"write_labels">>]
            /\ UNCHANGED manifest
    /\ UNCHANGED <<inputs, plan, chunks, tstate, idx, examples_count,
                   negative_count, disk, results, summary, wrote_after>>

\* print_results(results)
PrintResults ==
    /\ pc = "print_results"
    /\ summary' = print_results(results.list)
    /\ pc' = "done"
    /\ UNCHANGED <<inputs, plan, chunks, tstate, idx, examples_count,
                   negative_count, failure, disk, manifest, results, wrote_after>>

Next ==
    \/ GetRecordWritingTasks
    \/ Starmap
    \/ \E t \in Tasks : OpenWriter(t)
    \/ \E t \in Tasks : WriteRecord(t)
    \/ StarmapReturn
    \/ StarmapRaise
    \/ WriteLabels
    \/ PrintResults

Spec == Init /\ [][Next]_vars

\* The reader may return lists of different lengths for one train file.
InitAnyReader == InitInputs /\ store \in MismatchedStores /\ InitRun
SpecAnyReader == InitAnyReader /\ [][Next]_vars

-----------------------------------------------------------------------------
(* Properties *)

Planned == pc # "main"
SplitShards(prefix) == SelectSeq(tasks, LAMBDA t : t.id[1] = prefix)
Abs(x) == IF x < 0 THEN -x ELSE x

PartitionedAsClaimed(files, shards, number) ==
    LET L == Len(files)
        n == IF L = 0 THEN 0 ELSE Min(Max(number, 1), L)
    IN  /\ Len(shards) = n
        /\ \A i \in 0..(L - 1) : files[i + 1] \in Range(shards[(i % n) + 1].data)
        /\ \A i \in 1..L :
             Cardinality({kj \in (1..n) \X (1..L) :
                             /\ kj[2] <= Len(shards[kj[1]].data)
                             /\ shards[kj[1]].data[kj[2]] = files[i]}) = 1
        /\ \A k, m \in 1..n : Abs(Len(shards[k].data) - Len(shards[m].data)) <= 1

\* C1: for each split, the partition loop produces min(max(N,1), L) shard tasks
\* (none when L = 0), puts file[i] into shard i mod N', every file into exactly
\* one shard, and the shard sizes differ by at most one.
C1_Partition ==
    Planned =>
        /\ PartitionedAsClaimed(train_filenames, SplitShards("train"), args.number)
        /\ PartitionedAsClaimed(eval_filenames, SplitShards("eval"), args.number)

C1_Witness ==
    /\ Planned
    /\ Len(train_filenames) = 3
    /\ Len(SplitShards("train")) = 2
    /\ Len(SplitShards("train")[1].data) = 2

\* C2: in auto-split mode with a fraction in [0,1], eval is the first
\* floor(L * f) files of the shuffled list and train the rest, the two lists
\* hold every file exactly once, f = 0 gives no eval file and f = 1 no train file.
C2_AutoSplit ==
    (Planned /\ args.eval /\ 0 <= args.split.num /\ args.split.num <= args.split.den) =>
        LET L == Len(shuffled)
            k == (L * args.split.num) \div args.split.den
        IN  /\ Len(eval_filenames) = k
            /\ Len(train_filenames) = L - k
            /\ eval_filenames = SubSeq(shuffled, 1, k)
            /\ train_filenames = SubSeq(shuffled, k + 1, L)
            /\ Range(train_filenames) \cup Range(eval_filenames) = Range(shuffled)
            /\ Range(train_filenames) \cap Range(eval_filenames) = {}
            /\ args.split.num = 0 => eval_filenames = <<>>
            /\ args.split.num = args.split.den => train_filenames = <<>>

C2_Witness ==
    /\ Planned
    /\ args.eval
    /\ args.split = [num |-> 1, den |-> 2]
    /\ Len(shuffled) = 3
    /\ Len(eval_filenames) = 1
    /\ Len(train_filenames) = 2

AllDone == \A t \in DOMAIN tstate : tstate[t] = "returned"

\* C3: the label manifest is written only after every shard task has returned
\* with all its records written, and never in a run in which a task raised.
C3_ManifestAfterShards ==
    /\ manifest # NotWritten =>
          /\ pc \in {"print_results", "done"}
          /\ failure = NoFailure
          /\ DOMAIN tstate = Tasks
          /\ AllDone
          /\ \A t \in Tasks : Len(disk[tasks[t].out_path]) = Len(tasks[t].data)
    /\ (\E t \in DOMAIN tstate : tstate[t] = "raised") => manifest = NotWritten

C3_Witness ==
    /\ manifest # NotWritten
    /\ Len(tasks) >= 2
    /\ AllDone

ClassesOf(files) == UNION {Range(store[f].classes) : f \in files}
Vocabulary(S) == [c \in S |-> Cardinality({d \in S : StrLess(d, c)})]

\* C5: the vocabulary maps the K distinct class names of the files to 0..K-1 in
\* lexicographic order, whatever the order of the files, and the manifest
\* stores id + 1 for each name.
C5_Vocabulary ==
    Planned =>
        LET S == ClassesOf(Range(train_filenames) \cup Range(eval_filenames))
        IN  /\ labels = Vocabulary(S)
            /\ {labels[c] : c \in DOMAIN labels} = 0..(Cardinality(S) - 1)
            /\ manifest # NotWritten =>
                  /\ Len(manifest.items) = Cardinality(S)
                  /\ {<<manifest.items[k].name, manifest.items[k].id>> :
                          k \in 1..Len(manifest.items)}
                        = {<<c, labels[c] + 1>> : c \in S}

C5_Witness ==
    /\ manifest # NotWritten
    /\ Len(manifest.items) = 3
    /\ manifest.items[2] = [id |-> 2, name |-> <<1, 1>>]

ZeroBox(f) == Len(store[f].rects) = 0
Occurrences(n, names) == Cardinality({i \in 1..Len(names) : names[i] = n})
RECURSIVE BoxedOccurrences(_, _)
BoxedOccurrences(n, files) ==
    IF files = <<>> THEN 0
    ELSE (IF ZeroBox(Head(files)) THEN 0 ELSE Occurrences(n, store[Head(files)].classes))
         + BoxedOccurrences(n, Tail(files))
ZeroBoxFiles(files) == Cardinality({i \in 1..Len(files) : ZeroBox(files[i])})

\* C6: a file without boxes adds one to its shard's negative count and nothing
\* to any class count, a file with boxes adds nothing to the negative count;
\* a shard's negative_count is the number of its files without boxes.
C6_Negatives ==
    /\ \A t \in DOMAIN idx :
          LET written == SubSeq(tasks[t].data, 1, idx[t])
          IN  /\ negative_count[t] = ZeroBoxFiles(written)
              /\ \A n \in Names :
                    CopiesIn(n, examples_count[t]) = BoxedOccurrences(n, written)
    /\ results # NoResults =>
          \A t \in Tasks : results.list[t].negative_count = ZeroBoxFiles(tasks[t].data)

C6_Witness ==
    /\ results # NoResults
    /\ \E t \in Tasks :
          /\ results.list[t].record_count >= 2
          /\ results.list[t].negative_count = 1
          /\ DOMAIN results.list[t].class_count # {}

\* C7 as stated: with an unreadable folder the run stops at discovery: no shard
\* task, no record file, no manifest.
C7_StopsAtDiscovery ==
    (~dirs["folder"].readable \/ (args.eval_folder /\ ~dirs["eval_folder"].readable)) =>
        /\ pc \in {"main", "crashed"}
        /\ tasks = <<>>
        /\ DOMAIN disk = {}
        /\ manifest = NotWritten

RECURSIVE Concat(_)
Concat(ss) == IF ss = <<>> THEN <<>> ELSE Head(ss) \o Concat(Tail(ss))
ExpectedRecords(t) ==
    [i \in 1..Len(tasks[t].data) |->
        create_tf_example(labels, tasks[t].data[i], TRUE).example]
ExpectedResult(t) ==
    [id |-> tasks[t].id, record_count |-> Len(tasks[t].data),
     class_count |->
        Counter(Concat([i \in 1..Len(tasks[t].data) |-> store[tasks[t].data[i]].classes])),
     negative_count |-> ZeroBoxFiles(tasks[t].data)]
AllFiles == train_filenames \o eval_filenames

\* C8: no two tasks have the same output path, and whatever the interleaving
\* of the workers, each record file holds its own task's records, the results
\* come back in task order with each task's own counts, and the totals are
\* those of the whole file list.
C8_DisjointShards ==
    /\ \A u, t \in Tasks : u # t => tasks[u].out_path # tasks[t].out_path
    /\ results # NoResults =>
          /\ results.list = [t \in Tasks |-> ExpectedResult(t)]
          /\ \A t \in Tasks : disk[tasks[t].out_path] = ExpectedRecords(t)
    /\ summary # NotPrinted =>
          /\ summary.record_counts = Len(AllFiles)
          /\ summary.negative_counts = ZeroBoxFiles(AllFiles)
          /\ summary.example_counts =
                Counter(Concat([i \in 1..Len(AllFiles) |-> store[AllFiles[i]].classes]))

C8_Witness ==
    /\ pc = "done"
    /\ processes = 2
    /\ Len(SplitShards("train")) >= 2
    /\ Len(SplitShards("eval")) >= 1

Records == UNION {Range(disk[p]) : p \in DOMAIN disk}

\* C9: in every mode each class name of each file of each task is a key of the
\* vocabulary, no lookup fails, and every record carries the ids the
\* vocabulary gives to its class names.
C9_VocabularyCovers ==
    /\ \A t \in Tasks : \A i \in 1..Len(tasks[t].data) :
          Range(store[tasks[t].data[i]].classes) \subseteq DOMAIN tasks[t].labels
    /\ failure.kind # "KeyError"
    /\ \A r \in Records : \A i \in 1..Len(r.classes_txt) :
          /\ r.classes_txt[i] \in DOMAIN labels
          /\ r.class_ids[i] = labels[r.classes_txt[i]]

C9_Witness ==
    /\ args.eval_folder
    /\ \E r \in Records :
          /\ r.filename \in Range(eval_filenames)
          /\ r.classes_txt # <<>>
          /\ ~(Range(r.classes_txt) \subseteq ClassesOf(Range(train_filenames)))

\* C10 as stated: no record is emitted for a file whose box list and class
\* list differ in length, so every record has coordinate lists and class lists
\* of equal length.
C10_EqualLengths ==
    \A r \in Records :
        /\ Len(r.bbox) = Len(r.classes_txt)
        /\ Len(r.bbox) = Len(r.class_ids)

====
